---- MODULE Spec2Model ----
(***************************************************************************)
(* Invoice dashboard (client/src/pages/Dashboard.tsx): the record store,   *)
(* the predicate set, the memoised filtered view with its page reset, the  *)
(* paginator and the handlers that change them.  filteredData is the value  *)
(* of the useMemo cell: it is recomputed, and the page reset inside its    *)
(* callback runs, in the same step as the change of state that invalidates *)
(* it.  tzOffset is the time zone of the runtime; lastOp records the       *)
(* handler that ran last and its argument.                                 *)
(*                                                                         *)
(* Spec is the mounted component.  SpecFilter applies the filter to record *)
(* lists and predicate sets drawn from bounded sets; it includes amount    *)
(* bounds, for which the component renders no input.                       *)
(*                                                                         *)
(* Strings are sequences of one-character strings, so that trim,           *)
(* toLowerCase, includes and !== are computed and not assumed.  An absent  *)
(* (null/undefined) string field is the value Null.  Numbers are records   *)
(* [k, v] with k in {"num","nan","inf","null","undef"}.  Timestamps and    *)
(* date-input values are records [fmt, day, ms]; instants are milliseconds *)
(* since the epoch, in UTC.                                                *)
(***************************************************************************)
EXTENDS Integers, Sequences, FiniteSets, TLC

VARIABLES invoiceData, isLoading, searchKeyword, selectedProduct,
          selectedBillingCompany, selectedInvoiceCompany, dateRange,
          priceRange, filteredData, currentPage, tzOffset, lastOp,
          selectedFile, fileError, isUploading, chooserOpen, pendingUploads,
          uploadsStarted, localStorage, location, now, isDownloading,
          downloadParams

\* the upload state of the dashboard header
uploadVars == <<selectedFile, fileError, isUploading, chooserOpen,
                pendingUploads, uploadsStarted>>

\* the browser state the token functions and the response interceptor use
authVars == <<localStorage, location, now>>

\* the download state of the dashboard header
downloadVars == <<isDownloading, downloadParams>>

\* the state outside the filter pipeline
shellVars == <<uploadVars, authVars, downloadVars>>

vars == <<invoiceData, isLoading, searchKeyword, selectedProduct,
          selectedBillingCompany, selectedInvoiceCompany, dateRange,
          priceRange, filteredData, currentPage, tzOffset, lastOp, shellVars>>

----------------------------------------------------------------------------
(* Bounds *)

\* longest record list drawn as input of the filter function
MaxLen == 2

\* largest record store the backend returns in the dashboard specification
MaxRecords == 25

\* most uploads started in one behaviour
MaxUploads == 3

\* most steps of the clock in the session specification
MaxTicks == 3

----------------------------------------------------------------------------
(* Strings *)

\* an absent string field (null / undefined)
Null == <<"<null>">>

EmptyS == <<>>

\* JavaScript truthiness of a string-or-null value
Truthy(s) == s # Null /\ s # EmptyS

IsSpace(c) == c = " "

\* String.prototype.toLowerCase, one character
LowerChar(c) ==
  CASE c = "A" -> "a"
    [] c = "B" -> "b"
    [] c = "C" -> "c"
    [] c = "P" -> "p"
    [] c = "Q" -> "q"
    [] c = "L" -> "l"
    [] c = "S" -> "s"
    [] c = "V" -> "v"
    [] c = "X" -> "x"
    [] OTHER -> c

\* String.prototype.toLowerCase
ToLowerCase(s) == [i \in 1..Len(s) |-> LowerChar(s[i])]

RECURSIVE TrimStart(_)
TrimStart(s) ==
  IF s = <<>> THEN <<>>
  ELSE IF IsSpace(Head(s)) THEN TrimStart(Tail(s)) ELSE s

RECURSIVE TrimEnd(_)
TrimEnd(s) ==
  IF s = <<>> THEN <<>>
  ELSE IF IsSpace(s[Len(s)]) THEN TrimEnd(SubSeq(s, 1, Len(s) - 1)) ELSE s

\* String.prototype.trim
Trim(s) == TrimEnd(TrimStart(s))

\* String.prototype.includes
Includes(s, k) ==
  \E i \in 1..(Len(s) + 1) :
     /\ i + Len(k) - 1 <= Len(s)
     /\ SubSeq(s, i, i + Len(k) - 1) = k

----------------------------------------------------------------------------
(* Numbers *)

Num(n) == [k |-> "num", v |-> n]
NaN == [k |-> "nan", v |-> 0]
Infinity == [k |-> "inf", v |-> 0]
NullNum == [k |-> "null", v |-> 0]
Undefined == [k |-> "undef", v |-> 0]

\* ToNumber of the abstract relational comparison: null -> 0, undefined -> NaN
ToNumber(x) ==
  CASE x.k = "null" -> Num(0)
    [] x.k = "undef" -> NaN
    [] OTHER -> x

\* a < b on JavaScript numbers (false when either side is NaN)
JsLt(a, b) ==
  LET x == ToNumber(a)
      y == ToNumber(b)
  IN  /\ x.k # "nan"
      /\ y.k # "nan"
      /\ x.k # "inf"
      /\ (y.k = "inf" \/ x.v < y.v)

\* a > b on JavaScript numbers
JsGt(a, b) == JsLt(b, a)

IsDigit(c) == c \in {"0", "1", "2", "3", "4", "5", "6", "7", "8", "9"}

DigitVal(c) ==
  CASE c = "0" -> 0 [] c = "1" -> 1 [] c = "2" -> 2 [] c = "3" -> 3
    [] c = "4" -> 4 [] c = "5" -> 5 [] c = "6" -> 6 [] c = "7" -> 7
    [] c = "8" -> 8 [] c = "9" -> 9

RECURSIVE DigitsValue(_, _)
DigitsValue(s, acc) ==
  IF s = <<>> \/ ~IsDigit(Head(s)) THEN acc
  ELSE DigitsValue(Tail(s), acc * 10 + DigitVal(Head(s)))

\* parseFloat on the strings a number input yields (optionally signed
\* decimal integers); a string without a leading digit gives NaN
ParseFloat(s) ==
  LET t == TrimStart(s)
      neg == t # <<>> /\ Head(t) = "-"
      d == IF neg THEN Tail(t) ELSE t
  IN  IF d = <<>> \/ ~IsDigit(Head(d)) THEN NaN
      ELSE Num((IF neg THEN -1 ELSE 1) * DigitsValue(d, 0))

DigitChar(d) ==
  CASE d = 0 -> "0" [] d = 1 -> "1" [] d = 2 -> "2" [] d = 3 -> "3"
    [] d = 4 -> "4" [] d = 5 -> "5" [] d = 6 -> "6" [] d = 7 -> "7"
    [] d = 8 -> "8" [] d = 9 -> "9"

\* the decimal numeral of i >= 0
RECURSIVE Numeral(_)
Numeral(i) ==
  IF i < 10 THEN <<DigitChar(i)>>
  ELSE Append(Numeral(i \div 10), DigitChar(i % 10))

----------------------------------------------------------------------------
(* Dates *)

\* milliseconds in an hour and in a day
HourMs == 60 * 60 * 1000
DayMs == 24 * HourMs

\* the empty date-input value ""
NoDate == [fmt |-> "empty", day |-> 0, ms |-> 0]
\* "YYYY-MM-DD"
DateOnly(d) == [fmt |-> "date", day |-> d, ms |-> 0]
\* "YYYY-MM-DDTHH:mm" without a zone designator
DateTime(d, h) == [fmt |-> "datetime", day |-> d, ms |-> h * HourMs]
\* a string that is not a date
BadDate == [fmt |-> "invalid", day |-> 0, ms |-> 0]

\* new Date(string): a date-only form is read as UTC, a date-time form
\* without a zone as local time, anything else is an Invalid Date (NaN)
NewDate(s, tz) ==
  CASE s.fmt = "date" -> Num(s.day * DayMs)
    [] s.fmt = "datetime" -> Num(s.day * DayMs + s.ms - tz * HourMs)
    [] OTHER -> NaN

\* Date.prototype.setHours(23, 59, 59, 999): the last millisecond of the
\* local calendar day the instant falls in
SetHoursEndOfDay(t, tz) ==
  IF t.k # "num" THEN NaN
  ELSE LET localDay == (t.v + tz * HourMs) \div DayMs
       IN  Num(localDay * DayMs + (DayMs - 1) - tz * HourMs)

----------------------------------------------------------------------------
(* Records and the predicate set *)

\* one InvoiceData row
Invoice(no, issuer, receiver, product, spec, time, amount) ==
  [invoiceNo |-> no, invoiceCompany |-> issuer, billingCompany |-> receiver,
   productName |-> product, defaultSpec |-> spec, time |-> time,
   amount |-> amount]

\* the filter state the memoised view depends on
PredicateSet(kw, product, billing, issuer, dates, prices) ==
  [searchKeyword |-> kw, selectedProduct |-> product,
   selectedBillingCompany |-> billing, selectedInvoiceCompany |-> issuer,
   dateRange |-> dates, priceRange |-> prices]

\* the all-empty predicate set: the useState initial values
EmptyPredicates ==
  PredicateSet(EmptyS, EmptyS, EmptyS, EmptyS,
               [start |-> NoDate, end |-> NoDate],
               [min |-> EmptyS, max |-> EmptyS])

\* the predicate set of the current state
Predicates ==
  PredicateSet(searchKeyword, selectedProduct, selectedBillingCompany,
               selectedInvoiceCompany, dateRange, priceRange)

----------------------------------------------------------------------------
(* Filter engine *)

\* item.f && item.f.toLowerCase().includes(keyword)
FieldIncludes(f, keyword) == Truthy(f) /\ Includes(ToLowerCase(f), keyword)

\* mutant of MatchesKeyword: the product name is not searched
MatchesKeywordWithoutProduct(item, kw) ==
  LET keyword == ToLowerCase(kw)
  IN  \/ FieldIncludes(item.invoiceNo, keyword)
      \/ FieldIncludes(item.invoiceCompany, keyword)
      \/ FieldIncludes(item.billingCompany, keyword)

\* matchesKeyword of the filter callback
MatchesKeyword(item, kw) ==
  LET keyword == ToLowerCase(kw)
  IN  \/ FieldIncludes(item.invoiceNo, keyword)
      \/ FieldIncludes(item.invoiceCompany, keyword)
      \/ FieldIncludes(item.billingCompany, keyword)
      \/ FieldIncludes(item.productName, keyword)

\* mutant of DateRejects: an Invalid Date is outside every range
DateRejectsInvalid(item, dates, tz) ==
  /\ dates.start.fmt # "empty" \/ dates.end.fmt # "empty"
  /\ LET itemDate == NewDate(item.time, tz)
     IN  \/ itemDate.k = "nan"
         \/ /\ dates.start.fmt # "empty"
            /\ JsLt(itemDate, NewDate(dates.start, tz))
         \/ /\ dates.end.fmt # "empty"
            /\ JsGt(itemDate, SetHoursEndOfDay(NewDate(dates.end, tz), tz))

\* the date-range block of the filter callback: TRUE when it returns false
DateRejects(item, dates, tz) ==
  /\ dates.start.fmt # "empty" \/ dates.end.fmt # "empty"
  /\ LET itemDate == NewDate(item.time, tz)
     IN  \/ /\ dates.start.fmt # "empty"
            /\ JsLt(itemDate, NewDate(dates.start, tz))
         \/ /\ dates.end.fmt # "empty"
            /\ JsGt(itemDate, SetHoursEndOfDay(NewDate(dates.end, tz), tz))

\* mutant of PriceRejects: without a minimum there is no lower bound
PriceRejectsNoDefaultMin(item, prices) ==
  /\ Truthy(prices.min) \/ Truthy(prices.max)
  /\ LET maxPrice == IF Truthy(prices.max) THEN ParseFloat(prices.max) ELSE Infinity
     IN  \/ Truthy(prices.min) /\ JsLt(item.amount, ParseFloat(prices.min))
         \/ JsGt(item.amount, maxPrice)

\* mutant of PriceRejects: an amount that is not a number is out of range
PriceRejectsNaN(item, prices) ==
  /\ Truthy(prices.min) \/ Truthy(prices.max)
  /\ LET minPrice == IF Truthy(prices.min) THEN ParseFloat(prices.min) ELSE Num(0)
         maxPrice == IF Truthy(prices.max) THEN ParseFloat(prices.max) ELSE Infinity
     IN  \/ ToNumber(item.amount).k = "nan"
         \/ JsLt(item.amount, minPrice) \/ JsGt(item.amount, maxPrice)

\* the price-range block of the filter callback: TRUE when it returns false
PriceRejects(item, prices) ==
  /\ Truthy(prices.min) \/ Truthy(prices.max)
  /\ LET minPrice == IF Truthy(prices.min) THEN ParseFloat(prices.min) ELSE Num(0)
         maxPrice == IF Truthy(prices.max) THEN ParseFloat(prices.max) ELSE Infinity
     IN  JsLt(item.amount, minPrice) \/ JsGt(item.amount, maxPrice)

\* mutant of FilterItem: the receiving-company test is missing
FilterItemSkipsBilling(item, P, tz) ==
  IF Truthy(Trim(P.searchKeyword)) /\ ~MatchesKeyword(item, P.searchKeyword)
    THEN FALSE
  ELSE IF Truthy(P.selectedProduct) /\ item.productName # P.selectedProduct
    THEN FALSE
  ELSE IF Truthy(P.selectedInvoiceCompany)
          /\ item.invoiceCompany # P.selectedInvoiceCompany
    THEN FALSE
  ELSE IF DateRejects(item, P.dateRange, tz) THEN FALSE
  ELSE IF PriceRejects(item, P.priceRange) THEN FALSE
  ELSE TRUE

\* mutant of FilterItem: the product name is compared without regard to case
FilterItemProductIgnoresCase(item, P, tz) ==
  IF Truthy(Trim(P.searchKeyword)) /\ ~MatchesKeyword(item, P.searchKeyword)
    THEN FALSE
  ELSE IF Truthy(P.selectedProduct)
          /\ (item.productName = Null
              \/ ToLowerCase(item.productName) # ToLowerCase(P.selectedProduct))
    THEN FALSE
  ELSE IF Truthy(P.selectedBillingCompany)
          /\ item.billingCompany # P.selectedBillingCompany
    THEN FALSE
  ELSE IF Truthy(P.selectedInvoiceCompany)
          /\ item.invoiceCompany # P.selectedInvoiceCompany
    THEN FALSE
  ELSE IF DateRejects(item, P.dateRange, tz) THEN FALSE
  ELSE IF PriceRejects(item, P.priceRange) THEN FALSE
  ELSE TRUE

\* the callback of invoiceData.filter: its return value, early returns in order
FilterItem(item, P, tz) ==
  IF Truthy(Trim(P.searchKeyword)) /\ ~MatchesKeyword(item, P.searchKeyword)
    THEN FALSE
  ELSE IF Truthy(P.selectedProduct) /\ item.productName # P.selectedProduct
    THEN FALSE
  ELSE IF Truthy(P.selectedBillingCompany)
          /\ item.billingCompany # P.selectedBillingCompany
    THEN FALSE
  ELSE IF Truthy(P.selectedInvoiceCompany)
          /\ item.invoiceCompany # P.selectedInvoiceCompany
    THEN FALSE
  ELSE IF DateRejects(item, P.dateRange, tz) THEN FALSE
  ELSE IF PriceRejects(item, P.priceRange) THEN FALSE
  ELSE TRUE

\* mutant of Filter: the kept records come out in reverse order
FilterReversed(L, P, tz) ==
  LET kept == SelectSeq(L, LAMBDA item : FilterItem(item, P, tz))
  IN  [i \in 1..Len(kept) |-> kept[Len(kept) + 1 - i]]

\* invoiceData.filter(callback): the value of the filteredData memo for
\* store L and predicate set P
Filter(L, P, tz) == SelectSeq(L, LAMBDA item : FilterItem(item, P, tz))

\* mutant of PageAfterFilter: the callback leaves the page alone
PageAfterFilterKeepsPage(view, page) == page

\* setCurrentPage(1) inside the callback: it runs once per kept record, so
\* the page is reset exactly when the callback returned true at least once
PageAfterFilter(view, page) == IF Len(view) > 0 THEN 1 ELSE page

----------------------------------------------------------------------------
(* Paginator *)

pageSize == 10

\* mutant of CeilDiv: the quotient is rounded down
FloorDiv(a, b) == a \div b

\* Math.ceil(a / b) for a >= 0, b > 0
CeilDiv(a, b) == (a + b - 1) \div b

PagesOf(view) == CeilDiv(Len(view), pageSize)

totalPages == PagesOf(filteredData)

Min(a, b) == IF a < b THEN a ELSE b
Max(a, b) == IF a > b THEN a ELSE b

\* Array.prototype.slice(start, end): zero-based, end exclusive, negative
\* arguments count from the end, both clamped to [0, length]
Slice(s, start, end) ==
  LET n == Len(s)
      from == IF start < 0 THEN Max(n + start, 0) ELSE Min(start, n)
      to == IF end < 0 THEN Max(n + end, 0) ELSE Min(end, n)
  IN  IF to <= from THEN <<>> ELSE SubSeq(s, from + 1, to)

\* mutant of PageSlice: the slice starts one record late
PageSliceStartsLate(view, page) ==
  Slice(view, (page - 1) * pageSize + 1, page * pageSize)

\* mutant of PageSlice: the slice ends one record late
PageSliceEndsLate(view, page) ==
  Slice(view, (page - 1) * pageSize, page * pageSize + 1)

\* currentData for a view and a page
PageSlice(view, page) == Slice(view, (page - 1) * pageSize, page * pageSize)

currentData == PageSlice(filteredData, currentPage)

----------------------------------------------------------------------------
(* Aggregator *)

\* amount !== null && amount !== undefined && !isNaN(amount)
IsValidAmount(a) == a.k # "null" /\ a.k # "undef" /\ a.k # "nan"

\* filteredData.map(item => item.amount)
AmountsOf(view) == [i \in 1..Len(view) |-> view[i].amount]

\* the amounts of the view that pass the validity filter, in view order
ValidAmounts(view) == SelectSeq(AmountsOf(view), IsValidAmount)

\* amounts.reduce((sum, amount) => sum + amount, 0)
RECURSIVE SumAmounts(_)
SumAmounts(amounts) ==
  IF amounts = <<>> THEN 0
  ELSE SumAmounts(SubSeq(amounts, 1, Len(amounts) - 1)) + amounts[Len(amounts)].v

\* Math.max(...amounts) of a non-empty list of numbers
RECURSIVE MaxAmount(_)
MaxAmount(amounts) ==
  IF Len(amounts) = 1 THEN amounts[1].v
  ELSE Max(MaxAmount(SubSeq(amounts, 1, Len(amounts) - 1)), amounts[Len(amounts)].v)

\* Math.min(...amounts) of a non-empty list of numbers
RECURSIVE MinAmount(_)
MinAmount(amounts) ==
  IF Len(amounts) = 1 THEN amounts[1].v
  ELSE Min(MinAmount(SubSeq(amounts, 1, Len(amounts) - 1)), amounts[Len(amounts)].v)

\* the quotient n / d of two numbers, kept exact as a fraction
Quotient(n, d) == [n |-> n, d |-> d]

\* mutant of CompaniesOf: only the records with a valid amount are looked at
CompaniesOfValid(view) ==
  {view[i].invoiceCompany : i \in {j \in 1..Len(view) : IsValidAmount(view[j].amount)}}

\* new Set(filteredData.map(item => item.invoiceCompany))
CompaniesOf(view) == {view[i].invoiceCompany : i \in 1..Len(view)}

\* new Set(filteredData.map(item => item.productName))
ProductsOf(view) == {view[i].productName : i \in 1..Len(view)}

\* the all-zero statistics of the two early returns
ZeroStats ==
  [totalInvoices |-> 0, totalAmount |-> 0, averageAmount |-> Quotient(0, 1),
   maxAmount |-> 0, minAmount |-> 0, companyCount |-> 0, productCount |-> 0]

\* mutant of Stats: the average divides by the number of records of the view
StatsAveragesOverView(view) ==
  IF Len(view) = 0 THEN ZeroStats
  ELSE LET amounts == ValidAmounts(view)
       IN  IF Len(amounts) = 0 THEN ZeroStats
           ELSE LET totalAmount == SumAmounts(amounts)
                IN  [totalInvoices |-> Len(view),
                     totalAmount |-> totalAmount,
                     averageAmount |-> Quotient(totalAmount, Len(view)),
                     maxAmount |-> MaxAmount(amounts),
                     minAmount |-> MinAmount(amounts),
                     companyCount |-> Cardinality(CompaniesOf(view)),
                     productCount |-> Cardinality(ProductsOf(view))]

\* mutant of Stats: a view without a valid amount still reports its length
StatsCountsWithoutValid(view) ==
  IF Len(view) = 0 THEN ZeroStats
  ELSE LET amounts == ValidAmounts(view)
       IN  IF Len(amounts) = 0 THEN [ZeroStats EXCEPT !.totalInvoices = Len(view)]
           ELSE LET totalAmount == SumAmounts(amounts)
                IN  [totalInvoices |-> Len(view),
                     totalAmount |-> totalAmount,
                     averageAmount |-> Quotient(totalAmount, Len(amounts)),
                     maxAmount |-> MaxAmount(amounts),
                     minAmount |-> MinAmount(amounts),
                     companyCount |-> Cardinality(CompaniesOf(view)),
                     productCount |-> Cardinality(ProductsOf(view))]

\* mutant of Stats: the invoice count is the number of valid amounts
StatsCountsValidOnly(view) ==
  IF Len(view) = 0 THEN ZeroStats
  ELSE LET amounts == ValidAmounts(view)
       IN  IF Len(amounts) = 0 THEN ZeroStats
           ELSE LET totalAmount == SumAmounts(amounts)
                IN  [totalInvoices |-> Len(amounts),
                     totalAmount |-> totalAmount,
                     averageAmount |-> Quotient(totalAmount, Len(amounts)),
                     maxAmount |-> MaxAmount(amounts),
                     minAmount |-> MinAmount(amounts),
                     companyCount |-> Cardinality(CompaniesOf(view)),
                     productCount |-> Cardinality(ProductsOf(view))]

\* the stats memo callback for a view
Stats(view) ==
  IF Len(view) = 0 THEN ZeroStats
  ELSE LET amounts == ValidAmounts(view)
       IN  IF Len(amounts) = 0 THEN ZeroStats
           ELSE LET totalAmount == SumAmounts(amounts)
                IN  [totalInvoices |-> Len(view),
                     totalAmount |-> totalAmount,
                     averageAmount |-> Quotient(totalAmount, Len(amounts)),
                     maxAmount |-> MaxAmount(amounts),
                     minAmount |-> MinAmount(amounts),
                     companyCount |-> Cardinality(CompaniesOf(view)),
                     productCount |-> Cardinality(ProductsOf(view))]

\* useMemo(..., [filteredData])
stats == Stats(filteredData)

----------------------------------------------------------------------------
(* Suggestion lists *)

\* the UTF-16 code unit of a character of the record fields
CodeUnit(c) ==
  CASE c = " " -> 32 [] c = "-" -> 45
    [] c = "0" -> 48 [] c = "1" -> 49 [] c = "2" -> 50 [] c = "3" -> 51
    [] c = "4" -> 52 [] c = "5" -> 53 [] c = "6" -> 54 [] c = "7" -> 55
    [] c = "8" -> 56 [] c = "9" -> 57
    [] c = "A" -> 65 [] c = "B" -> 66 [] c = "C" -> 67 [] c = "P" -> 80
    [] c = "Q" -> 81
    [] c = "a" -> 97 [] c = "b" -> 98 [] c = "c" -> 99 [] c = "n" -> 110
    [] c = "o" -> 111 [] c = "p" -> 112 [] c = "q" -> 113 [] c = "r" -> 114
    [] c = "x" -> 120 [] c = "y" -> 121 [] c = "z" -> 122

\* a < b in the default order of Array.prototype.sort: by code units, a
\* proper prefix first
StringLess(a, b) ==
  \E k \in 1..(Len(a) + 1) :
     /\ k <= Len(b)
     /\ \A i \in 1..(k - 1) : a[i] = b[i]
     /\ k = Len(a) + 1 \/ CodeUnit(a[k]) < CodeUnit(b[k])

\* Array.from(new Set(list)): the first occurrence of every value, in order
RECURSIVE SetOrder(_)
SetOrder(list) ==
  IF list = <<>> THEN <<>>
  ELSE LET front == SetOrder(SubSeq(list, 1, Len(list) - 1))
           last == list[Len(list)]
       IN  IF \E i \in 1..Len(front) : front[i] = last THEN front
           ELSE Append(front, last)

\* the sorted list with one more string put in its place
InsertSorted(sorted, x) ==
  LET before == SelectSeq(sorted, LAMBDA y : ~StringLess(x, y))
      after == SelectSeq(sorted, LAMBDA y : StringLess(x, y))
  IN  before \o <<x>> \o after

\* Array.prototype.sort() without a comparator
RECURSIVE SortStrings(_)
SortStrings(list) ==
  IF list = <<>> THEN <<>>
  ELSE InsertSorted(SortStrings(SubSeq(list, 1, Len(list) - 1)), list[Len(list)])

\* Array.from(new Set(store.map(item => item[f]).filter(Boolean))).sort()
FacetList(store, f) ==
  SortStrings(SetOrder(SelectSeq([i \in 1..Len(store) |-> store[i][f]], Truthy)))

uniqueCompanies == FacetList(invoiceData, "invoiceCompany")

\* mutant of uniqueProducts: the list is taken from the filtered view
uniqueProductsOfView == FacetList(filteredData, "productName")

uniqueProducts == FacetList(invoiceData, "productName")

uniqueBillingCompanies == FacetList(invoiceData, "billingCompany")

uniqueInvoiceCompanies == FacetList(invoiceData, "invoiceCompany")

\* mutant of uniqueFilteredCompanies: the list is taken from the whole store
uniqueFilteredCompaniesOfStore == FacetList(invoiceData, "invoiceCompany")

\* the company list of the results, over the filtered view
uniqueFilteredCompanies == FacetList(filteredData, "invoiceCompany")

----------------------------------------------------------------------------
(* Upload: files and their validation *)

\* a File of the file input: its name, MIME type and size in bytes
File(name, type, size) == [name |-> name, type |-> type, size |-> size]

\* selectedFile === null, and an empty FileList
NoFile == [name |-> Null, type |-> "", size |-> 0]

MimeXlsx == "application/vnd.openxmlformats-officedocument.spreadsheetml.sheet"
MimeXls == "application/vnd.ms-excel"
MimeCsv == "text/csv"

allowedTypes == {MimeXlsx, MimeXls, MimeCsv}

\* file.name.split(".").pop(): the part after the last dot, the whole name
\* when it has no dot
LastSegment(name) ==
  LET dots == {i \in 1..Len(name) : name[i] = "."}
  IN  IF dots = {} THEN name
      ELSE LET last == CHOOSE i \in dots : \A j \in dots : j <= i
           IN  SubSeq(name, last + 1, Len(name))

fileExtension(file) == ToLowerCase(LastSegment(file.name))

allowedExtensions ==
  {<<"x", "l", "s", "x">>, <<"x", "l", "s">>, <<"c", "s", "v">>}

isTypeValid(file) ==
  file.type \in allowedTypes \/ fileExtension(file) \in allowedExtensions

maxSize == 10 * 1024 * 1024

\* the texts handleFileUpload and handleUpload put in fileError
MsgWrongType == "select a file of the right type (.xlsx, .xls, .csv only)"
MsgTooLarge == "the file must not be larger than 10MB"
MsgSelectFirst == "select the file to upload first"

\* the values the file-upload state takes when the component mounts
UploadInit ==
  /\ selectedFile = NoFile
  /\ fileError = ""
  /\ isUploading = FALSE
  /\ chooserOpen = FALSE
  /\ pendingUploads = <<>>
  /\ uploadsStarted = 0

----------------------------------------------------------------------------
(* Token storage and the shared HTTP client *)

TOKEN_KEY == "admin_access_token"
EXPIRES_IN_KEY == "token_expires_in"
CREATE_TIME_KEY == "token_create_time"

StorageKeys == {TOKEN_KEY, EXPIRES_IN_KEY, CREATE_TIME_KEY}

\* localStorage.getItem(key): null for a key that is not stored
GetItem(store, key) == store[key]

\* localStorage.setItem(key, value)
SetItem(store, key, value) == [store EXCEPT ![key] = value]

\* localStorage.removeItem(key)
RemoveItem(store, key) == [store EXCEPT ![key] = Null]

\* Number(string) on the digit strings toString() has written
NumberOf(s) == DigitsValue(s, 0)

\* setToken(token, expiresIn) at the time t of Date.now()
setToken(store, token, expiresIn, t) ==
  SetItem(SetItem(SetItem(store, TOKEN_KEY, token),
                  EXPIRES_IN_KEY, Numeral(expiresIn)),
          CREATE_TIME_KEY, Numeral(t))

getToken(store) == GetItem(store, TOKEN_KEY)

\* mutant of removeToken: only the token itself is removed
removeTokenOnly(store) == RemoveItem(store, TOKEN_KEY)

removeToken(store) ==
  RemoveItem(RemoveItem(RemoveItem(store, TOKEN_KEY), EXPIRES_IN_KEY),
             CREATE_TIME_KEY)

\* isTokenValid() at the time t of Date.now()
isTokenValid(store, t) ==
  LET token == getToken(store)
      createTime == GetItem(store, CREATE_TIME_KEY)
      expiresIn == GetItem(store, EXPIRES_IN_KEY)
  IN  IF ~Truthy(token) \/ ~Truthy(createTime) \/ ~Truthy(expiresIn) THEN FALSE
      ELSE LET aliveTime == (t - NumberOf(createTime)) \div 1000
           IN  aliveTime < NumberOf(expiresIn) - 60

\* a browser without credentials, on the login page
AuthInit ==
  /\ localStorage = [key \in StorageKeys |-> Null]
  /\ location = "/login"
  /\ now = 0

\* no download has been requested
DownloadInit ==
  /\ isDownloading = FALSE
  /\ downloadParams = {}

ShellInit == UploadInit /\ AuthInit /\ DownloadInit

----------------------------------------------------------------------------
(* Inputs *)

\* rows the backend returns: between them they carry an absent and an empty
\* field, case variants, values that differ by a leading space or a suffix,
\* a keyword that occurs only in the specification field, timestamps around
\* a day boundary, an unparseable timestamp, and NaN, null and negative
\* amounts
R1 == Invoice(<<"n", "1">>, <<"a", "b", "c", "C", "o", "r", "p">>,
              <<"x", "y", "z">>, <<"P", "a">>, Null,
              DateTime(2, 23), Num(100))
R2 == Invoice(<<"n", "2">>, <<"Q">>, <<"x", "y", "z">>, <<"p", "a">>,
              <<"a", "b", "c">>, DateTime(3, 0), NaN)
R3 == Invoice(<<"A", "B", "C", "3">>, Null, EmptyS, <<"P", "a", "b">>, Null,
              BadDate, NullNum)
R4 == Invoice(<<"n", "4">>, <<"Q">>, <<"z", "a", "b", "c">>,
              <<" ", "P", "a">>, EmptyS, DateTime(2, 0), Num(300))
R5 == Invoice(<<"n", "5">>, <<" ", "Q">>, <<"q">>, <<"c", "A", "B", "C">>,
              Null, DateTime(1, 23), Num(-50))

RecordPool == <<R1, R2, R3, R4, R5>>

\* all record lists of length at most n over the pool
RECURSIVE ListsUpTo(_)
ListsUpTo(n) ==
  IF n = 0 THEN {<<>>}
  ELSE LET shorter == ListsUpTo(n - 1)
       IN  shorter \cup
           {Append(l, RecordPool[i]) : l \in shorter, i \in 1..Len(RecordPool)}

\* a store of n rows: the pool repeated, every row with its own invoice
\* number
Dataset(n) ==
  [i \in 1..n |->
     [RecordPool[((i - 1) % Len(RecordPool)) + 1]
        EXCEPT !.invoiceNo = @ \o <<"-">> \o Numeral(i)]]

\* sizes of the stores the fetch returns: none, one page, just over a page,
\* and the largest
StoreSizes == {0, 1, pageSize, pageSize + 1, MaxRecords}

\* runtime time-zone offsets from UTC, in hours
TzOffsets == {-5, 0, 8}

Blank == <<" ">>
KeywordABC == <<"A", "B", "C">>
KeywordSpaceQ == <<" ", "Q">>
KeywordNone == <<"z", "z">>
ProductPa == <<"P", "a">>
CompanyXyz == <<"x", "y", "z">>
CompanyQ == <<"Q">>

\* keyword slot values given to the filter function
KeywordInputs == {EmptyS, Blank, KeywordABC, KeywordSpaceQ}
\* values of the three exact-match slots given to the filter function
ProductInputs == {EmptyS, Blank, ProductPa}
BillingInputs == {EmptyS, CompanyXyz}
IssuerInputs == {EmptyS, CompanyQ}
\* text typed into the search box of the dashboard
KeywordTyped == {EmptyS, KeywordABC, KeywordNone}
\* values picked in the three datalist inputs of the dashboard
ProductPicked == {EmptyS, ProductPa}
BillingPicked == {EmptyS, CompanyXyz}
IssuerPicked == {EmptyS, CompanyQ}
\* values of the two date inputs
DateInputs == {NoDate, DateOnly(2)}
\* values of the two amount inputs
MinInputs == {EmptyS, <<"1", "0", "0">>}
MaxInputs == {EmptyS, <<"3", "0", "0">>}

NoOp == [op |-> "none", arg |-> 0]
Op(name, n) == [op |-> name, arg |-> n]

----------------------------------------------------------------------------
(* The dashboard component *)

predicateVars == <<searchKeyword, selectedProduct, selectedBillingCompany,
                   selectedInvoiceCompany, dateRange, priceRange>>

\* useState initial values; the time zone is fixed by the runtime
Init ==
  /\ invoiceData = <<>>
  /\ isLoading = TRUE
  /\ searchKeyword = EmptyS
  /\ selectedProduct = EmptyS
  /\ selectedBillingCompany = EmptyS
  /\ selectedInvoiceCompany = EmptyS
  /\ dateRange = [start |-> NoDate, end |-> NoDate]
  /\ priceRange = [min |-> EmptyS, max |-> EmptyS]
  /\ filteredData = <<>>
  /\ currentPage = 1
  /\ tzOffset \in TzOffsets
  /\ lastOp = NoOp
  /\ ShellInit

\* the render after a dependency of the filteredData memo changed: the
\* callback runs over the new store and predicate set
Rerender ==
  /\ filteredData' = Filter(invoiceData', Predicates', tzOffset)
  /\ currentPage' = PageAfterFilter(filteredData', currentPage)

\* loadData, request resolved
LoadDataOk(n) ==
  /\ isLoading
  /\ invoiceData' = Dataset(n)
  /\ isLoading' = FALSE
  /\ lastOp' = Op("loadDataOk", n)
  /\ UNCHANGED <<predicateVars, tzOffset, shellVars>>
  /\ Rerender

\* mutant of LoadDataFail: the catch block leaves the loading flag set
LoadDataFailKeepsLoading ==
  /\ isLoading
  /\ lastOp' = Op("loadDataFail", 0)
  /\ UNCHANGED <<invoiceData, isLoading, predicateVars, filteredData,
                 currentPage, tzOffset, shellVars>>

\* loadData, request rejected
LoadDataFail ==
  /\ isLoading
  /\ isLoading' = FALSE
  /\ lastOp' = Op("loadDataFail", 0)
  /\ UNCHANGED <<invoiceData, predicateVars, filteredData, currentPage,
                 tzOffset, shellVars>>

\* onChange of the search box
SetSearchKeyword(v) ==
  /\ ~isLoading
  /\ v # searchKeyword
  /\ searchKeyword' = v
  /\ lastOp' = Op("setSearchKeyword", 0)
  /\ UNCHANGED <<invoiceData, isLoading, selectedProduct, selectedBillingCompany,
                 selectedInvoiceCompany, dateRange, priceRange, tzOffset, shellVars>>
  /\ Rerender

\* onChange of the product input
SetSelectedProduct(v) ==
  /\ ~isLoading
  /\ v # selectedProduct
  /\ selectedProduct' = v
  /\ lastOp' = Op("setSelectedProduct", 0)
  /\ UNCHANGED <<invoiceData, isLoading, searchKeyword, selectedBillingCompany,
                 selectedInvoiceCompany, dateRange, priceRange, tzOffset, shellVars>>
  /\ Rerender

\* onChange of the receiving-company input
SetSelectedBillingCompany(v) ==
  /\ ~isLoading
  /\ v # selectedBillingCompany
  /\ selectedBillingCompany' = v
  /\ lastOp' = Op("setSelectedBillingCompany", 0)
  /\ UNCHANGED <<invoiceData, isLoading, searchKeyword, selectedProduct,
                 selectedInvoiceCompany, dateRange, priceRange, tzOffset, shellVars>>
  /\ Rerender

\* onChange of the issuing-company input
SetSelectedInvoiceCompany(v) ==
  /\ ~isLoading
  /\ v # selectedInvoiceCompany
  /\ selectedInvoiceCompany' = v
  /\ lastOp' = Op("setSelectedInvoiceCompany", 0)
  /\ UNCHANGED <<invoiceData, isLoading, searchKeyword, selectedProduct,
                 selectedBillingCompany, dateRange, priceRange, tzOffset, shellVars>>
  /\ Rerender

\* onChange of the start-date input
SetDateStart(v) ==
  /\ ~isLoading
  /\ v # dateRange.start
  /\ dateRange' = [dateRange EXCEPT !.start = v]
  /\ lastOp' = Op("setDateStart", 0)
  /\ UNCHANGED <<invoiceData, isLoading, searchKeyword, selectedProduct,
                 selectedBillingCompany, selectedInvoiceCompany, priceRange,
                 tzOffset, shellVars>>
  /\ Rerender

\* onChange of the end-date input
SetDateEnd(v) ==
  /\ ~isLoading
  /\ v # dateRange.end
  /\ dateRange' = [dateRange EXCEPT !.end = v]
  /\ lastOp' = Op("setDateEnd", 0)
  /\ UNCHANGED <<invoiceData, isLoading, searchKeyword, selectedProduct,
                 selectedBillingCompany, selectedInvoiceCompany, priceRange,
                 tzOffset, shellVars>>
  /\ Rerender

\* mutant of clearFilters: the product slot is not reset
clearFiltersKeepsProduct ==
  /\ ~isLoading
  /\ dateRange' = [start |-> NoDate, end |-> NoDate]
  /\ priceRange' = [min |-> EmptyS, max |-> EmptyS]
  /\ searchKeyword' = EmptyS
  /\ selectedBillingCompany' = EmptyS
  /\ selectedInvoiceCompany' = EmptyS
  /\ lastOp' = Op("clearFilters", 0)
  /\ UNCHANGED <<invoiceData, isLoading, selectedProduct, tzOffset, shellVars>>
  /\ Rerender

\* clearFilters: dateRange and priceRange are set to fresh objects, so the
\* memo is recomputed even when every slot was already empty
clearFilters ==
  /\ ~isLoading
  /\ dateRange' = [start |-> NoDate, end |-> NoDate]
  /\ priceRange' = [min |-> EmptyS, max |-> EmptyS]
  /\ searchKeyword' = EmptyS
  /\ selectedProduct' = EmptyS
  /\ selectedBillingCompany' = EmptyS
  /\ selectedInvoiceCompany' = EmptyS
  /\ lastOp' = Op("clearFilters", 0)
  /\ UNCHANGED <<invoiceData, isLoading, tzOffset, shellVars>>
  /\ Rerender

\* mutant of handlePageChange: the upper guard is off by one
handlePageChangeLooseGuard(page) ==
  /\ ~isLoading
  /\ IF page < 1 \/ page > totalPages + 1
       THEN currentPage' = currentPage
       ELSE currentPage' = page
  /\ lastOp' = Op("handlePageChange", page)
  /\ UNCHANGED <<invoiceData, isLoading, predicateVars, filteredData, tzOffset, shellVars>>

\* handlePageChange(page)
handlePageChange(page) ==
  /\ ~isLoading
  /\ IF page < 1 \/ page > totalPages
       THEN currentPage' = currentPage
       ELSE currentPage' = page
  /\ lastOp' = Op("handlePageChange", page)
  /\ UNCHANGED <<invoiceData, isLoading, predicateVars, filteredData, tzOffset, shellVars>>

\* page numbers handed to handlePageChange: the four buttons' arguments and
\* the two just outside the range
PageInputs == 0..(totalPages + 1)

Next ==
  \/ \E n \in StoreSizes : LoadDataOk(n)
  \/ LoadDataFail
  \/ \E v \in KeywordTyped : SetSearchKeyword(v)
  \/ \E v \in ProductPicked : SetSelectedProduct(v)
  \/ \E v \in BillingPicked : SetSelectedBillingCompany(v)
  \/ \E v \in IssuerPicked : SetSelectedInvoiceCompany(v)
  \/ \E v \in DateInputs : SetDateStart(v)
  \/ \E v \in DateInputs : SetDateEnd(v)
  \/ clearFilters
  \/ \E page \in PageInputs : handlePageChange(page)

Spec == Init /\ [][Next]_vars

----------------------------------------------------------------------------
(* The filter as a function of its inputs *)

\* any record list, predicate set and time zone; the page is the one a user
\* had reached before the predicate set took its present value
InitFilter ==
  /\ invoiceData \in ListsUpTo(MaxLen)
  /\ isLoading = FALSE
  /\ searchKeyword \in KeywordInputs
  /\ selectedProduct \in ProductInputs
  /\ selectedBillingCompany \in BillingInputs
  /\ selectedInvoiceCompany \in IssuerInputs
  /\ dateRange \in [start : DateInputs, end : DateInputs]
  /\ priceRange \in [min : MinInputs, max : MaxInputs]
  /\ filteredData = <<>>
  /\ currentPage = 1
  /\ tzOffset \in TzOffsets
  /\ lastOp = NoOp
  /\ ShellInit

\* one evaluation of the filteredData memo
RunFilter ==
  /\ lastOp = NoOp
  /\ lastOp' = Op("filter", 0)
  /\ filteredData' = Filter(invoiceData, Predicates, tzOffset)
  /\ currentPage' = PageAfterFilter(filteredData', currentPage)
  /\ UNCHANGED <<invoiceData, isLoading, predicateVars, tzOffset, shellVars>>

NextFilter == RunFilter

SpecFilter == InitFilter /\ [][NextFilter]_vars

----------------------------------------------------------------------------
(* The upload of a spreadsheet *)

\* the state of the filter pipeline, which the upload handlers leave alone
pipelineVars == <<invoiceData, isLoading, predicateVars, filteredData,
                  currentPage, tzOffset>>

FileNames ==
  {<<"a", ".", "x", "l", "s", "x">>, <<"a", ".", "X", "L", "S">>,
   <<"a", ".", "c", "s", "v">>, <<"a", ".", "t", "x", "t">>,
   <<"a", ".", "c", "s", "v", ".", "t", "x", "t">>, <<"c", "s", "v">>}

FileTypes == {MimeXlsx, MimeCsv, "text/plain", ""}

FileSizes == {1, maxSize, maxSize + 1}

\* the files a user can pick in the chooser
Files == {File(n, t, z) : n \in FileNames, t \in FileTypes, z \in FileSizes}

\* how the request of handleUpload ends: a response with a business code
\* (its data readable or not), an error response, no response, or an error
\* raised before the request left
Outcome(kind, code, msg, data) ==
  [kind |-> kind, code |-> code, msg |-> msg, data |-> data]

UploadOutcomes ==
  {Outcome("response", 200, "", TRUE), Outcome("response", 200, "", FALSE),
   Outcome("response", 400, "header missing", TRUE),
   Outcome("response", 400, "", TRUE),
   Outcome("errorResponse", 500, "busy", TRUE),
   Outcome("errorResponse", 401, "", TRUE),
   Outcome("noResponse", 0, "", TRUE),
   Outcome("error", 0, "aborted", TRUE)}

\* a || b on strings
OrElse(a, b) == IF a # "" THEN a ELSE b

UploadFailed(detail) == "upload failed: " \o detail

\* the message the catch block of handleUpload builds
CatchMessage(error) ==
  CASE error.kind = "errorResponse" ->
         UploadFailed((CASE error.code = 401 -> "401"
                         [] error.code = 500 -> "500"
                         [] OTHER -> "400")
                      \o " - " \o OrElse(error.msg, "server error"))
    [] error.kind = "noResponse" ->
         UploadFailed("cannot reach the server, check the network")
    [] OTHER -> UploadFailed(error.msg)

\* onChange of the hidden file input
handleFileUpload(file) ==
  /\ chooserOpen
  /\ chooserOpen' = FALSE
  /\ lastOp' = Op("handleFileUpload", file.size)
  /\ IF file = NoFile
       THEN selectedFile' = NoFile /\ fileError' = ""
       ELSE IF ~isTypeValid(file)
              THEN selectedFile' = NoFile /\ fileError' = MsgWrongType
              ELSE IF file.size > maxSize
                     THEN selectedFile' = NoFile /\ fileError' = MsgTooLarge
                     ELSE selectedFile' = file /\ fileError' = ""
  /\ UNCHANGED <<isUploading, pendingUploads, uploadsStarted, pipelineVars, authVars, downloadVars>>

\* the chooser is dismissed and the input does not change
ChooserDismissed ==
  /\ chooserOpen
  /\ chooserOpen' = FALSE
  /\ lastOp' = Op("chooserDismissed", 0)
  /\ UNCHANGED <<selectedFile, fileError, isUploading, pendingUploads,
                 uploadsStarted, pipelineVars, authVars, downloadVars>>

\* mutant of handleUpload: the isUploading test is missing
handleUploadWhileBusy ==
  /\ ~chooserOpen
  /\ IF selectedFile = NoFile
       THEN /\ fileError' = MsgSelectFirst
            /\ chooserOpen' = TRUE
            /\ lastOp' = Op("handleUpload", 0)
            /\ UNCHANGED <<selectedFile, isUploading, pendingUploads,
                           uploadsStarted>>
       ELSE /\ uploadsStarted < MaxUploads
            /\ isUploading' = TRUE
            /\ fileError' = ""
            /\ pendingUploads' = Append(pendingUploads, selectedFile)
            /\ uploadsStarted' = uploadsStarted + 1
            /\ lastOp' = Op("handleUpload", 2)
            /\ UNCHANGED <<selectedFile, chooserOpen>>
  /\ UNCHANGED <<pipelineVars, authVars, downloadVars>>

\* handleUpload up to its await: without a file it asks for one and opens
\* the chooser, during an upload it returns, otherwise it sends the request
handleUpload ==
  /\ ~chooserOpen
  /\ IF selectedFile = NoFile
       THEN /\ fileError' = MsgSelectFirst
            /\ chooserOpen' = TRUE
            /\ lastOp' = Op("handleUpload", 0)
            /\ UNCHANGED <<selectedFile, isUploading, pendingUploads,
                           uploadsStarted>>
       ELSE IF isUploading
              THEN /\ lastOp' = Op("handleUpload", 1)
                   /\ UNCHANGED uploadVars
              ELSE /\ uploadsStarted < MaxUploads
                   /\ isUploading' = TRUE
                   /\ fileError' = ""
                   /\ pendingUploads' = Append(pendingUploads, selectedFile)
                   /\ uploadsStarted' = uploadsStarted + 1
                   /\ lastOp' = Op("handleUpload", 2)
                   /\ UNCHANGED <<selectedFile, chooserOpen>>
  /\ UNCHANGED <<pipelineVars, authVars, downloadVars>>

\* mutant of UploadResolves: the finally block is missing, and only the
\* success branch clears the busy flag
UploadResolvesWithoutFinally(outcome) ==
  /\ pendingUploads # <<>>
  /\ pendingUploads' = Tail(pendingUploads)
  /\ lastOp' = Op("uploadResolves", outcome.code)
  /\ IF outcome.kind = "response"
       THEN IF outcome.code = 200
              THEN IF outcome.data
                     THEN fileError' = fileError
                     ELSE fileError' =
                            CatchMessage(Outcome("error", 0, "cannot read new_added", TRUE))
              ELSE fileError' = UploadFailed(OrElse(outcome.msg, "unknown error"))
       ELSE fileError' = CatchMessage(outcome)
  /\ selectedFile' = NoFile
  /\ isUploading' = ~(outcome.kind = "response" /\ outcome.code = 200 /\ outcome.data)
  /\ UNCHANGED <<chooserOpen, uploadsStarted, pipelineVars, authVars, downloadVars>>

\* handleUpload after its await: the branches of try, catch and finally
UploadResolves(outcome) ==
  /\ pendingUploads # <<>>
  /\ pendingUploads' = Tail(pendingUploads)
  /\ lastOp' = Op("uploadResolves", outcome.code)
  /\ IF outcome.kind = "response"
       THEN IF outcome.code = 200
              THEN IF outcome.data
                     THEN fileError' = fileError
                     ELSE fileError' =
                            CatchMessage(Outcome("error", 0, "cannot read new_added", TRUE))
              ELSE fileError' = UploadFailed(OrElse(outcome.msg, "unknown error"))
       ELSE fileError' = CatchMessage(outcome)
  /\ selectedFile' = NoFile
  /\ isUploading' = FALSE
  /\ UNCHANGED <<chooserOpen, uploadsStarted, pipelineVars, authVars, downloadVars>>

InitUpload == Init /\ tzOffset = 0

NextUpload ==
  \/ \E file \in Files \cup {NoFile} : handleFileUpload(file)
  \/ ChooserDismissed
  \/ handleUpload
  \/ \E outcome \in UploadOutcomes : UploadResolves(outcome)

\* the request has a timeout, so it resolves
SpecUpload ==
  /\ InitUpload
  /\ [][NextUpload]_vars
  /\ WF_vars(\E outcome \in UploadOutcomes : UploadResolves(outcome))

----------------------------------------------------------------------------
(* The session: login, clock and the responses of the shared client *)

\* one step of the clock, in milliseconds
TickMs == 30 * 1000

\* expires_in of the login response, in seconds
ExpiresInValues == {60, 120}

\* HTTP statuses of the responses the shared client receives; 0 stands for
\* an error without a response
SuccessStatuses == {200}
ErrorStatuses == {0, 401, 403, 500}

\* the login page stores the token of a successful login
Login(token, expiresIn) ==
  /\ localStorage' = setToken(localStorage, token, expiresIn, now)
  /\ lastOp' = Op("login", expiresIn)
  /\ UNCHANGED <<location, now, pipelineVars, uploadVars, downloadVars>>

\* the user opens another page
Navigate(path) ==
  /\ path # location
  /\ location' = path
  /\ lastOp' = Op("navigate", 0)
  /\ UNCHANGED <<localStorage, now, pipelineVars, uploadVars, downloadVars>>

\* time passes
Tick ==
  /\ now < MaxTicks * TickMs
  /\ now' = now + TickMs
  /\ lastOp' = Op("tick", 0)
  /\ UNCHANGED <<localStorage, location, pipelineVars, uploadVars,
                 downloadVars>>

\* the first handler of request.interceptors.response: the response is
\* handed on
ResponseFulfilled(status) ==
  /\ lastOp' = Op("response", status)
  /\ UNCHANGED <<authVars, pipelineVars, uploadVars, downloadVars>>

\* the second handler of request.interceptors.response
ResponseRejected(status) ==
  /\ lastOp' = Op("response", status)
  /\ IF status = 401
       THEN /\ localStorage' = removeToken(localStorage)
            /\ location' = "/login"
       ELSE UNCHANGED <<localStorage, location>>
  /\ UNCHANGED <<now, pipelineVars, uploadVars, downloadVars>>

NextAuth ==
  \/ \E token \in {<<"t", "1">>, <<"t", "2">>}, expiresIn \in ExpiresInValues : Login(token, expiresIn)
  \/ \E path \in {"/", "/dashboard"} : Navigate(path)
  \/ Tick
  \/ \E status \in SuccessStatuses : ResponseFulfilled(status)
  \/ \E status \in ErrorStatuses : ResponseRejected(status)

SpecAuth == InitUpload /\ [][NextAuth]_vars

----------------------------------------------------------------------------
(* The download of the filtered records *)

\* Object.entries(filters): the five filters handleDownload reads, in order;
\* the two dates are values of <input type="date">
DownloadFilters ==
  << <<"receive_company", selectedBillingCompany>>,
     <<"issue_company", selectedInvoiceCompany>>,
     <<"start_date", dateRange.start>>,
     <<"end_date", dateRange.end>>,
     <<"product_name", selectedProduct>> >>

\* value.trim(): the value of a date input is empty or a date without spaces
TrimValue(key, value) ==
  IF key \in {"start_date", "end_date"} THEN value ELSE Trim(value)

\* the test `if (value.trim())`
TrimmedIsTruthy(key, value) ==
  IF key \in {"start_date", "end_date"} THEN value # NoDate ELSE Trim(value) # EmptyS

\* mutant of DownloadQuery: the value is appended as typed
DownloadQueryUntrimmed(filters) ==
  {<<filters[i][1], filters[i][2]>> :
     i \in {j \in 1..Len(filters) : TrimmedIsTruthy(filters[j][1], filters[j][2])}}

\* Object.fromEntries(params) after the forEach that appends the trimmed
\* value of every filter whose trimmed value is not empty
DownloadQuery(filters) ==
  {<<filters[i][1], TrimValue(filters[i][1], filters[i][2])>> :
     i \in {j \in 1..Len(filters) : TrimmedIsTruthy(filters[j][1], filters[j][2])}}

\* a click on the download button, which is disabled during a download and
\* when the page shown has no row: handleDownload up to its await, where the
\* request leaves with its params
handleDownload ==
  /\ ~isDownloading /\ Len(currentData) # 0
  /\ isDownloading' = TRUE
  /\ downloadParams' = DownloadQuery(DownloadFilters)
  /\ lastOp' = Op("handleDownload", 0)
  /\ UNCHANGED <<pipelineVars, uploadVars, authVars>>

\* handleDownload after its await: the file is saved or the error shown
DownloadResolves(ok) ==
  /\ isDownloading
  /\ isDownloading' = FALSE
  /\ lastOp' = Op("downloadResolves", IF ok THEN 1 ELSE 0)
  /\ UNCHANGED <<downloadParams, pipelineVars, uploadVars, authVars>>

SpacePa == <<" ", "P", "a">>

\* the store is loaded: the pool and a row whose product name starts with
\* a space and whose receiving company is a single space. The filter slots
\* hold any of the values typed, blank and space-padded ones included; the
\* view is the one the filter gives for them, shown from its first page
InitDownload ==
  /\ invoiceData =
       Dataset(Len(RecordPool)) \o
       <<Invoice(<<"A", "B", "C", "6">>, <<"Q">>, Blank, SpacePa, Null,
                 DateTime(2, 0), Num(300))>>
  /\ isLoading = FALSE
  /\ searchKeyword \in {EmptyS, KeywordABC}
  /\ selectedProduct \in {EmptyS, ProductPa, SpacePa}
  /\ selectedBillingCompany \in {EmptyS, Blank, CompanyXyz}
  /\ selectedInvoiceCompany \in {EmptyS, CompanyQ, KeywordSpaceQ}
  /\ dateRange \in [start : DateInputs, end : DateInputs]
  /\ priceRange \in [min : MinInputs, max : MaxInputs]
  /\ tzOffset = 0
  /\ filteredData = Filter(invoiceData, Predicates, tzOffset)
  /\ currentPage = 1
  /\ lastOp = NoOp
  /\ ShellInit

NextDownload ==
  \/ handleDownload
  \/ \E ok \in BOOLEAN : DownloadResolves(ok)

SpecDownload == InitDownload /\ [][NextDownload]_vars

----------------------------------------------------------------------------
(* Claims *)

\* the memo holds the result of a filter run (filter specification)
Filtered == lastOp.op = "filter"

\* record r is shown in the filtered view
InView(r) == \E j \in 1..Len(filteredData) : filteredData[j] = r

IsBlank(s) == \A i \in 1..Len(s) : s[i] = " "

\* the activity of each predicate, as the callback tests it
KeywordActive == ~IsBlank(searchKeyword)
ProductActive == selectedProduct # <<>>
BillingActive == selectedBillingCompany # <<>>
IssuerActive == selectedInvoiceCompany # <<>>
DateActive == dateRange.start # NoDate \/ dateRange.end # NoDate
AmountActive == priceRange.min # <<>> \/ priceRange.max # <<>>

\* C1: after a filter run, a record of the list is in the filtered view iff
\* it satisfies every active predicate (keyword, product, receiving company,
\* issuing company, date range, amount range); an inactive predicate
\* contributes nothing, and nothing else excludes a record.
C1_ViewIsConjunctionOfActivePredicates ==
  Filtered =>
    \A i \in 1..Len(invoiceData) :
      LET r == invoiceData[i]
      IN  InView(r) <=>
            /\ KeywordActive => MatchesKeyword(r, searchKeyword)
            /\ ProductActive => r.productName = selectedProduct
            /\ BillingActive => r.billingCompany = selectedBillingCompany
            /\ IssuerActive => r.invoiceCompany = selectedInvoiceCompany
            /\ DateActive => ~DateRejects(r, dateRange, tzOffset)
            /\ AmountActive => ~PriceRejects(r, priceRange)

\* C1 witness: four predicates are active at once, one record of two passes
\* them all and the other fails one of them
C1_Witness ==
  /\ Filtered
  /\ KeywordActive /\ BillingActive /\ DateActive /\ AmountActive
  /\ Len(invoiceData) = 2
  /\ Len(filteredData) = 1

RECURSIVE IsSubsequence(_, _)
IsSubsequence(a, b) ==
  IF a = <<>> THEN TRUE
  ELSE IF b = <<>> THEN FALSE
  ELSE IF Head(a) = Head(b) THEN IsSubsequence(Tail(a), Tail(b))
  ELSE IsSubsequence(a, Tail(b))

\* C2: the filtered view is a subsequence of the record list: only records
\* of the list, none more often than in the list, in the list's order.
C2_ViewIsSubsequence == Filtered => IsSubsequence(filteredData, invoiceData)

\* C2 witness: two different records are both kept, in their order
C2_Witness ==
  /\ Filtered
  /\ Len(invoiceData) = 2
  /\ invoiceData[1] # invoiceData[2]
  /\ KeywordActive
  /\ filteredData = invoiceData

\* C3: with every predicate slot empty the filtered view is the whole
\* record store, and so it is after clearFilters, whatever the state before.
C3_EmptyPredicatesShowEverything ==
  /\ Predicates = EmptyPredicates => filteredData = invoiceData
  /\ lastOp.op = "clearFilters" =>
       Predicates = EmptyPredicates /\ filteredData = invoiceData

\* C3 witness: clearFilters has run on a store of more than one page
C3_Witness ==
  /\ lastOp.op = "clearFilters"
  /\ Len(invoiceData) > pageSize
  /\ filteredData = invoiceData

\* C4: a step that changes any slot of the predicate set leaves the current
\* page at 1, whatever the page was and whatever the new filtered view is.
C4_PredicateChangeResetsPage ==
  [][predicateVars' # predicateVars => currentPage' = 1]_vars

\* C5: handlePageChange(n) changes nothing when n < 1 or n > totalPages and
\* otherwise sets the current page to n; it never touches the store, the
\* predicate set or the filtered view.
C5_HandlePageChangeGuard ==
  [][lastOp'.op = "handlePageChange" =>
       /\ currentPage' = IF lastOp'.arg < 1 \/ lastOp'.arg > totalPages
                           THEN currentPage
                           ELSE lastOp'.arg
       /\ UNCHANGED <<invoiceData, isLoading, predicateVars, filteredData,
                      tzOffset>>]_vars

\* C5 witness: 'next' was requested on the last of several pages and the
\* page is still the last one
C5_Witness ==
  /\ lastOp.op = "handlePageChange"
  /\ totalPages > 1
  /\ lastOp.arg = totalPages + 1
  /\ currentPage = totalPages

\* C6: totalPages is the least k with k * 10 >= filteredCount, hence 0 for
\* an empty view; 25 filtered records give 3 pages, the third with 5 records.
C6_TotalPagesIsCeiling ==
  LET n == Len(filteredData)
  IN  /\ totalPages * 10 >= n
      /\ (totalPages - 1) * 10 < n
      /\ n = 0 => totalPages = 0
      /\ n = 25 => totalPages = 3 /\ Len(PageSlice(filteredData, 3)) = 5

\* C6 witness: page 3 of a view of 25 records is displayed
C6_Witness ==
  /\ Len(filteredData) = 25
  /\ currentPage = 3
  /\ Len(currentData) = 5

\* C7: the displayed records are those of the filtered view at zero-based
\* positions (p-1)*10 up to but not including p*10, in view order, cut off
\* at the end of the view.
C7_CurrentDataIsPageSlice ==
  LET lo == (currentPage - 1) * 10
      hi == Min(currentPage * 10, Len(filteredData))
  IN  /\ Len(currentData) = Max(hi - lo, 0)
      /\ \A k \in 1..Len(currentData) : currentData[k] = filteredData[lo + k]

\* C7 witness: the second, partly filled page of a view is displayed
C7_Witness ==
  /\ currentPage = 2
  /\ Len(filteredData) > 10
  /\ Len(filteredData) < 20
  /\ Len(currentData) = Len(filteredData) - 10

\* lower-cased k occurs in lower-cased f at some offset
OccursIgnoringCase(k, f) ==
  \E off \in 0..(Len(f) - Len(k)) :
    \A j \in 1..Len(k) : LowerChar(f[off + j]) = LowerChar(k[j])

\* the keyword predicate as stated: one of the four searched fields is
\* present and contains the keyword, case ignored
KeywordFound(r, k) ==
  \E f \in {r.invoiceNo, r.invoiceCompany, r.billingCompany, r.productName} :
    f # Null /\ OccursIgnoringCase(k, f)

OnlyKeywordActive ==
  ~ProductActive /\ ~BillingActive /\ ~IssuerActive /\ ~DateActive
  /\ ~AmountActive

\* C8: with a non-blank keyword k, only records in which lower-cased k is a
\* substring of the lower-cased invoice number, issuing company, receiving
\* company or product name are shown, and all of them are when no other
\* predicate is active; an empty or absent field neither matches nor
\* disqualifies, and no other field is searched.
C8_KeywordMatchesFourFields ==
  Filtered /\ KeywordActive =>
    \A i \in 1..Len(invoiceData) :
      LET r == invoiceData[i]
      IN  /\ InView(r) => KeywordFound(r, searchKeyword)
          /\ OnlyKeywordActive /\ KeywordFound(r, searchKeyword) => InView(r)

\* C8 witness: keyword "ABC" alone; the record that has "abc" only in its
\* specification field is dropped, the record with invoice number "ABC3",
\* no issuing company and an empty receiving company is kept
C8_Witness ==
  /\ Filtered
  /\ searchKeyword = KeywordABC
  /\ OnlyKeywordActive
  /\ invoiceData = <<R2, R3>>
  /\ filteredData = <<R3>>

\* a blank slot read as the empty slot
Unblank(s) == IF IsBlank(s) THEN EmptyS ELSE s

\* C9: a slot that is empty or holds only whitespace is inactive: the view is
\* the one obtained with every such slot (keyword, product, issuing company,
\* receiving company) empty.
C9_BlankSlotIsInactive ==
  Filtered =>
    filteredData =
      Filter(invoiceData,
             PredicateSet(Unblank(searchKeyword), Unblank(selectedProduct),
                          Unblank(selectedBillingCompany),
                          Unblank(selectedInvoiceCompany), dateRange,
                          priceRange),
             tzOffset)

OnlyExactActive == ~KeywordActive /\ ~DateActive /\ ~AmountActive

\* C10: when the product, receiving-company or issuing-company slot holds a
\* value v, only records whose field is exactly v (same case, same length,
\* nothing trimmed) are shown, and all of them are when no keyword, date or
\* amount predicate is active.
C10_ExactMatchFilters ==
  Filtered =>
    \A i \in 1..Len(invoiceData) :
      LET r == invoiceData[i]
          exact == /\ ProductActive => r.productName = selectedProduct
                   /\ BillingActive => r.billingCompany = selectedBillingCompany
                   /\ IssuerActive => r.invoiceCompany = selectedInvoiceCompany
      IN  /\ InView(r) => exact
          /\ OnlyExactActive /\ exact => InView(r)

\* C10 witness: product "Pa" alone; "pa" is dropped and "Pa" is kept
C10_Witness ==
  /\ Filtered
  /\ selectedProduct = ProductPa
  /\ ~BillingActive /\ ~IssuerActive /\ OnlyExactActive
  /\ invoiceData = <<R2, R1>>
  /\ filteredData = <<R1>>

----------------------------------------------------------------------------
(* Date and amount predicates *)

\* the reading of a record's timestamp on the local clock, in milliseconds
LocalMs(t) == t.day * DayMs + t.ms

HasTimestamp(r) == r.time.fmt = "datetime"

OnlyEndDateActive ==
  /\ dateRange.end # NoDate /\ dateRange.start = NoDate
  /\ ~KeywordActive /\ ~ProductActive /\ ~BillingActive /\ ~IssuerActive
  /\ ~AmountActive

OnlyStartDateActive ==
  /\ dateRange.start # NoDate /\ dateRange.end = NoDate
  /\ ~KeywordActive /\ ~ProductActive /\ ~BillingActive /\ ~IssuerActive
  /\ ~AmountActive

\* C11: with an end date E, a record with a timestamp passes the date
\* predicate iff its timestamp, read on the local clock, is not after
\* 23:59:59.999 of calendar day E, whatever the time-zone offset: no shown
\* record is later than that, and every record up to it is shown when the end
\* date is the only active predicate.
C11_EndDateInclusiveLocalDay ==
  Filtered /\ dateRange.end # NoDate =>
    \A i \in 1..Len(invoiceData) :
      LET r == invoiceData[i]
          within == LocalMs(r.time) <= dateRange.end.day * DayMs + (DayMs - 1)
      IN  HasTimestamp(r) =>
            /\ InView(r) => within
            /\ OnlyEndDateActive /\ within => InView(r)

\* C12: with a start date S, a record with a timestamp passes the date
\* predicate iff its timestamp, read on the local clock, is not before
\* 00:00:00.000 of calendar day S, whatever the time-zone offset: no shown
\* record is earlier than that, and every record from it on is shown when the
\* start date is the only active predicate.
C12_StartDateInclusiveLocalDay ==
  Filtered /\ dateRange.start # NoDate =>
    \A i \in 1..Len(invoiceData) :
      LET r == invoiceData[i]
          within == LocalMs(r.time) >= dateRange.start.day * DayMs
      IN  HasTimestamp(r) =>
            /\ InView(r) => within
            /\ OnlyStartDateActive /\ within => InView(r)

OnlyAmountActive ==
  /\ AmountActive
  /\ ~KeywordActive /\ ~ProductActive /\ ~BillingActive /\ ~IssuerActive
  /\ ~DateActive

\* C13: when at least one amount bound is set, a record with a numeric amount
\* a passes the amount predicate iff min <= a <= max, both ends inclusive,
\* where min is the parsed minimum or 0 when it is unset and max is the parsed
\* maximum or +infinity when it is unset; a maximum alone still excludes
\* negative amounts.
C13_AmountRangeInclusive ==
  Filtered /\ AmountActive =>
    \A i \in 1..Len(invoiceData) :
      LET r == invoiceData[i]
          lo == IF priceRange.min # EmptyS THEN ParseFloat(priceRange.min).v ELSE 0
          within == /\ lo <= r.amount.v
                    /\ priceRange.max # EmptyS =>
                         r.amount.v <= ParseFloat(priceRange.max).v
      IN  r.amount.k = "num" =>
            /\ InView(r) => within
            /\ OnlyAmountActive /\ within => InView(r)

\* C13 witness: a maximum of 300 alone; the amount 300 is kept and the
\* amount -50 is dropped
C13_Witness ==
  /\ Filtered /\ OnlyAmountActive
  /\ priceRange = [min |-> EmptyS, max |-> <<"3", "0", "0">>]
  /\ invoiceData = <<R5, R4>>
  /\ filteredData = <<R4>>

NotANumber(r) == r.amount.k \in {"nan", "undef"}

\* the predicate set with the amount bounds removed
WithoutAmountBounds == [Predicates EXCEPT !.priceRange = EmptyPredicates.priceRange]

\* the predicate set with the date bounds removed
WithoutDateBounds == [Predicates EXCEPT !.dateRange = EmptyPredicates.dateRange]

C15_UnparsedTimestampExcluded ==
  Filtered /\ DateActive =>
    \A i \in 1..Len(invoiceData) :
      invoiceData[i].time.fmt = "invalid" => ~InView(invoiceData[i])

\* C15 amended: when a date bound is active, filtering a record whose
\* timestamp does not parse completes, and the record passes the date
\* predicate: it is in the view iff it passes the other predicates.
C15_UnparsedTimestampPassesDatePredicate ==
  Filtered /\ DateActive =>
    \A i \in 1..Len(invoiceData) :
      LET r == invoiceData[i]
      IN  r.time.fmt = "invalid" =>
            (InView(r) <=> FilterItem(r, WithoutDateBounds, tzOffset))

\* C15 witness: start and end date of day 2 alone at offset 0; the record
\* without a readable timestamp is shown, the record of day 3 is not
C15_Witness ==
  /\ Filtered /\ tzOffset = 0
  /\ dateRange = [start |-> DateOnly(2), end |-> DateOnly(2)]
  /\ ~KeywordActive /\ ~ProductActive /\ ~BillingActive /\ ~IssuerActive
  /\ ~AmountActive
  /\ invoiceData = <<R2, R3>>
  /\ filteredData = <<R3>>

----------------------------------------------------------------------------
(* Summary statistics *)

\* the positions of the view that hold a valid amount
ValidPositions(view) == {i \in 1..Len(view) : view[i].amount.k = "num"}

RECURSIVE SumOver(_, _)
SumOver(view, S) ==
  IF S = {} THEN 0
  ELSE LET i == CHOOSE j \in S : TRUE
       IN  view[i].amount.v + SumOver(view, S \ {i})

\* the statistics s are those the claim gives for the view
SummarisesValidAmounts(s, view) ==
  LET V == ValidPositions(view)
  IN  /\ s.totalAmount = SumOver(view, V)
      /\ s.averageAmount.d # 0
      /\ s.averageAmount.n * Cardinality(V) = s.totalAmount * s.averageAmount.d
      /\ \E i \in V : s.maxAmount = view[i].amount.v
      /\ \A i \in V : view[i].amount.v <= s.maxAmount
      /\ \E i \in V : s.minAmount = view[i].amount.v
      /\ \A i \in V : s.minAmount <= view[i].amount.v

\* records with the amounts 100, 200, NaN, 300
ExampleView ==
  <<R1, [R1 EXCEPT !.amount = Num(200)], R2, R4>>

\* C16: when the view holds at least one valid amount, totalAmount is the sum
\* of the valid (non-null, non-undefined, non-NaN) amounts, averageAmount is
\* that sum divided by the number of valid amounts, and maxAmount and
\* minAmount are the largest and smallest valid amount; for the amounts
\* [100, 200, NaN, 300] they are 600, 200, 300 and 100.
C16_StatsOverValidAmounts ==
  /\ ValidPositions(filteredData) # {} =>
       SummarisesValidAmounts(stats, filteredData)
  /\ LET s == Stats(ExampleView)
     IN  /\ s.totalAmount = 600
         /\ s.averageAmount.n = 200 * s.averageAmount.d
         /\ s.maxAmount = 300
         /\ s.minAmount = 100

\* C16 witness: eleven records are shown, seven of them with a valid amount;
\* the total is 800, the average 800/7, the extremes 300 and -50
C16_Witness ==
  /\ Len(invoiceData) = pageSize + 1
  /\ filteredData = invoiceData
  /\ Cardinality(ValidPositions(filteredData)) = 7
  /\ stats.totalAmount = 800
  /\ stats.averageAmount = Quotient(800, 7)
  /\ stats.maxAmount = 300
  /\ stats.minAmount = -50

\* C17: if the view is empty, or is non-empty but holds no valid amount,
\* every field of the statistics is 0: the invoice count, the total, the
\* average, the maximum, the minimum and both distinct counts.
C17_DegenerateStatsAreZero ==
  Len(filteredData) = 0 \/ ValidPositions(filteredData) = {} =>
    /\ stats.totalInvoices = 0
    /\ stats.totalAmount = 0
    /\ stats.averageAmount.n = 0
    /\ stats.maxAmount = 0
    /\ stats.minAmount = 0
    /\ stats.companyCount = 0
    /\ stats.productCount = 0

\* C17 witness: the view shows records, none of them with a valid amount,
\* and the invoice count is 0
C17_Witness ==
  /\ Len(filteredData) > 1
  /\ ValidPositions(filteredData) = {}
  /\ stats.totalInvoices = 0
  /\ stats.companyCount = 0

HasInvalidAmount(r) == r.amount.k \in {"null", "undef", "nan"}

\* C18: a record whose amount is null, undefined or NaN is never dropped from
\* the view because of its amount when no amount bound is active (it is shown
\* iff it passes the other predicates), and it is counted in the invoice
\* count, which is the length of the view, whenever the view holds at least
\* one valid amount.
C18_InvalidAmountKeptAndCounted ==
  Filtered =>
    /\ ~AmountActive =>
         \A i \in 1..Len(invoiceData) :
           LET r == invoiceData[i]
           IN  HasInvalidAmount(r) =>
                 (InView(r) <=>
                    /\ KeywordActive => MatchesKeyword(r, searchKeyword)
                    /\ ProductActive => r.productName = selectedProduct
                    /\ BillingActive => r.billingCompany = selectedBillingCompany
                    /\ IssuerActive => r.invoiceCompany = selectedInvoiceCompany
                    /\ DateActive => ~DateRejects(r, dateRange, tzOffset))
    /\ ValidPositions(filteredData) # {} =>
         stats.totalInvoices = Len(filteredData)

\* C18 witness: no predicate is active; a record with a valid amount and one
\* with a NaN amount are both shown and both counted
C18_Witness ==
  /\ Filtered /\ Predicates = EmptyPredicates
  /\ invoiceData = <<R1, R2>>
  /\ filteredData = <<R1, R2>>
  /\ stats.totalInvoices = 2
  /\ stats.totalAmount = 100

\* the number of distinct values of field f over the records of the view:
\* the positions whose value occurs at no earlier position
DistinctCount(view, f) ==
  Cardinality({i \in 1..Len(view) : \A j \in 1..(i - 1) : view[j][f] # view[i][f]})

\* C19: when the view holds at least one valid amount, the distinct company
\* count is the number of distinct issuing-company values and the distinct
\* product count the number of distinct product-name values over all records
\* of the view, those with an invalid amount included.
C19_DistinctCountsOverWholeView ==
  ValidPositions(filteredData) # {} =>
    /\ stats.companyCount = DistinctCount(filteredData, "invoiceCompany")
    /\ stats.productCount = DistinctCount(filteredData, "productName")

\* C19 witness: eleven records are shown; the absent issuing company and
\* two product names occur only on records without a valid amount, and are
\* counted
C19_Witness ==
  /\ Len(invoiceData) = pageSize + 1
  /\ filteredData = invoiceData
  /\ ValidPositions(filteredData) # {}
  /\ \E i \in 1..Len(filteredData) :
       /\ HasInvalidAmount(filteredData[i])
       /\ \A j \in ValidPositions(filteredData) :
            filteredData[j].invoiceCompany # filteredData[i].invoiceCompany
  /\ stats.companyCount = 4
  /\ stats.productCount = 5

----------------------------------------------------------------------------
(* Suggestion lists of the filters *)

\* list is the ascending list, without repetition, of the non-empty values
\* of field f over the store
IsSuggestionList(list, store, f) ==
  /\ \A i \in 1..(Len(list) - 1) : StringLess(list[i], list[i + 1])
  /\ \A i \in 1..Len(list) : list[i] # Null /\ list[i] # EmptyS
  /\ {list[i] : i \in 1..Len(list)} =
       {store[i][f] : i \in 1..Len(store)} \ {Null, EmptyS}

\* C20: in every reachable state each suggestion list (issuing companies,
\* receiving companies, product names) is the ascending list of the distinct
\* non-empty values of its field over the unfiltered store, with no duplicate
\* and no empty value; being determined by the store alone, it is the same
\* before and after any change of a predicate or of the current page.
C20_SuggestionListsFollowStore ==
  /\ IsSuggestionList(uniqueCompanies, invoiceData, "invoiceCompany")
  /\ IsSuggestionList(uniqueInvoiceCompanies, invoiceData, "invoiceCompany")
  /\ IsSuggestionList(uniqueBillingCompanies, invoiceData, "billingCompany")
  /\ IsSuggestionList(uniqueProducts, invoiceData, "productName")

\* C20 witness: a store of eleven records is filtered down to fewer while
\* the product list still offers all five product names, in order
C20_Witness ==
  /\ Len(invoiceData) = pageSize + 1
  /\ Len(filteredData) < Len(invoiceData)
  /\ currentPage = 1
  /\ uniqueProducts =
       << <<" ", "P", "a">>, <<"P", "a">>, <<"P", "a", "b">>,
          <<"c", "A", "B", "C">>, <<"p", "a">> >>
  /\ uniqueInvoiceCompanies =
       << <<" ", "Q">>, <<"Q">>, <<"a", "b", "c", "C", "o", "r", "p">> >>
  /\ uniqueBillingCompanies = << <<"q">>, <<"x", "y", "z">>, <<"z", "a", "b", "c">> >>

----------------------------------------------------------------------------
(* Company list of the results *)

\* C21: in every reachable state the company list shown for the results is
\* the ascending list of the distinct non-empty issuing-company values of the
\* current filtered view; it lists no company without a record in the view.
C21_ResultCompaniesFollowView ==
  /\ IsSuggestionList(uniqueFilteredCompanies, filteredData, "invoiceCompany")
  /\ \A i \in 1..Len(uniqueFilteredCompanies) :
       \E j \in 1..Len(filteredData) :
          filteredData[j].invoiceCompany = uniqueFilteredCompanies[i]

\* C21 witness: the issuing company "Q" has been picked; the results list
\* holds "Q" alone while the store has three companies
C21_Witness ==
  /\ lastOp.op = "setSelectedInvoiceCompany"
  /\ selectedInvoiceCompany = CompanyQ
  /\ Len(filteredData) > 1
  /\ uniqueFilteredCompanies = <<CompanyQ>>
  /\ Len(uniqueInvoiceCompanies) = 3

----------------------------------------------------------------------------
(* Failure of the initial fetch *)

\* the empty state of everything derived from the store
ShowsNothing(view) ==
  /\ view = <<>>
  /\ Stats(view) = ZeroStats
  /\ PagesOf(view) = 0

\* C22: when the initial fetch fails the loading state ends and the store
\* stays empty, so the filtered view is empty, all statistics are 0 and
\* totalPages is 0; once loading has ended no filter or page operation
\* changes the store, and over an empty store the view stays empty.
C22_FetchFailureLeavesEmptyStore ==
  [][/\ lastOp'.op = "loadDataFail" =>
          /\ ~isLoading'
          /\ invoiceData' = <<>>
          /\ ShowsNothing(filteredData')
     /\ ~isLoading =>
          /\ invoiceData' = invoiceData
          /\ invoiceData = <<>> => ShowsNothing(filteredData')]_vars

\* C22 witness: the fetch has just failed; loading has ended and store,
\* view, statistics and page count are empty
C22_Witness ==
  /\ lastOp.op = "loadDataFail"
  /\ ~isLoading
  /\ invoiceData = <<>>
  /\ ShowsNothing(filteredData)
  /\ stats = ZeroStats /\ totalPages = 0

----------------------------------------------------------------------------
(* Upload: validation and requests *)

\* the name ends in a dot followed by ext, in any case
HasExtension(name, ext) ==
  /\ Len(name) > Len(ext)
  /\ name[Len(name) - Len(ext)] = "."
  /\ ToLowerCase(SubSeq(name, Len(name) - Len(ext) + 1, Len(name))) = ext

\* a spreadsheet by its MIME type or by the extension of its name
IsSpreadsheet(file) ==
  \/ file.type \in {MimeXlsx, MimeXls, MimeCsv}
  \/ \E ext \in allowedExtensions : HasExtension(file.name, ext)

PassesValidation(file) == IsSpreadsheet(file) /\ file.size <= 10 * 1024 * 1024

\* C23: an upload request is sent only for a file that is a spreadsheet
\* (.xlsx, .xls or .csv) of at most 10 MB; selecting a file of another type
\* or a larger size sets an error message and leaves no file selected, so
\* that no handleUpload call sends a request for it.
C23_OnlyValidatedFilesAreUploaded ==
  [][/\ Len(pendingUploads') > Len(pendingUploads) =>
          PassesValidation(pendingUploads'[Len(pendingUploads')])
     /\ \A file \in Files :
          handleFileUpload(file) /\ ~PassesValidation(file) =>
            /\ selectedFile' = NoFile
            /\ fileError' # ""
            /\ pendingUploads' = pendingUploads]_vars

\* C29: every started upload eventually finishes with isUploading false and
\* no file selected, whatever the outcome (backend code 200, another backend
\* code, network error or exception); the step that resolves the request
\* clears the busy flag and the selected file, and on the failure outcomes
\* it leaves a non-empty error message.
C29_UploadFinishes ==
  /\ isUploading ~> (~isUploading /\ selectedFile = NoFile)
  /\ [][\A outcome \in UploadOutcomes :
          UploadResolves(outcome) =>
            /\ ~isUploading'
            /\ selectedFile' = NoFile
            /\ ~(outcome.kind = "response" /\ outcome.code = 200) =>
                 fileError' # ""]_vars

\* C29 witness: an upload has ended on a backend code other than 200; the
\* busy flag and the file are cleared and the error message is set
C29_Witness ==
  /\ lastOp = Op("uploadResolves", 400)
  /\ uploadsStarted > 0
  /\ ~isUploading
  /\ selectedFile = NoFile
  /\ fileError = UploadFailed("unknown error")

\* C30: while an upload request is outstanding, a further handleUpload
\* returns without sending a request and without changing the upload state,
\* so at most one upload request is in flight at any time; handleUpload with
\* no file selected sends no request.
C30_SingleUploadInFlight ==
  /\ [](Len(pendingUploads) <= 1)
  /\ [][handleUpload =>
          /\ isUploading => UNCHANGED uploadVars
          /\ selectedFile = NoFile =>
               pendingUploads' = pendingUploads /\ ~isUploading']_vars

\* C30 witness: handleUpload has been called during an upload and has
\* returned at the isUploading test; one request is in flight
C30_Witness ==
  /\ lastOp = Op("handleUpload", 1)
  /\ isUploading
  /\ selectedFile # NoFile
  /\ Len(pendingUploads) = 1
  /\ uploadsStarted = 1

----------------------------------------------------------------------------
(* Expired session *)

CredentialsStored(store) == \E key \in StorageKeys : store[key] # Null

\* C24: when a request made through the shared client receives an HTTP 401
\* response, the stored token, expiry and creation time are removed and the
\* browser is sent to the login page, so that getToken() is null and
\* isTokenValid() is false afterwards; a response with any other status
\* leaves the stored credentials unchanged.
C24_Unauthorized401ClearsCredentials ==
  [][/\ \A status \in ErrorStatuses :
          ResponseRejected(status) =>
            IF status = 401
              THEN /\ \A key \in StorageKeys : GetItem(localStorage', key) = Null
                   /\ location' = "/login"
                   /\ getToken(localStorage') = Null
                   /\ ~isTokenValid(localStorage', now')
              ELSE localStorage' = localStorage
     /\ \A status \in SuccessStatuses :
          ResponseFulfilled(status) => localStorage' = localStorage]_vars

\* C24 witness: time has passed since a login, a 401 has just been
\* received; nothing is stored and the browser is on the login page
C24_Witness ==
  /\ lastOp = Op("response", 401)
  /\ now > 0
  /\ ~CredentialsStored(localStorage)
  /\ getToken(localStorage) = Null
  /\ ~isTokenValid(localStorage, now)
  /\ location = "/login"

----------------------------------------------------------------------------
(* Download parameters *)

Spaces(n) == [i \in 1..n |-> " "]

\* v is s without the spaces at its two ends, and is not empty
IsTrimOf(v, s) ==
  /\ v # EmptyS
  /\ v[1] # " " /\ v[Len(v)] # " "
  /\ \E i, j \in 0..Len(s) : s = Spaces(i) \o v \o Spaces(j)

DownloadKeys ==
  {"receive_company", "issue_company", "start_date", "end_date", "product_name"}

\* the parameters of the request with key key
ParamsOf(key) == {pair \in downloadParams : pair[1] = key}

\* the text slot gives no parameter when blank, else its trimmed value
TextParamIs(key, slot) ==
  IF IsBlank(slot) THEN ParamsOf(key) = {}
  ELSE \E v \in {pair[2] : pair \in ParamsOf(key)} :
          ParamsOf(key) = {<<key, v>>} /\ IsTrimOf(v, slot)

\* the date slot gives no parameter when empty, else its value
DateParamIs(key, slot) ==
  IF slot = NoDate THEN ParamsOf(key) = {} ELSE ParamsOf(key) = {<<key, slot>>}

\* C25: a download request carries as query parameters exactly those of
\* receiving company, issuing company, start date, end date and product
\* name whose filter value is not blank, each trimmed, and nothing else: no
\* keyword, no amount bound, and no parameter for a blank slot.
C25_DownloadSendsNonBlankFilters ==
  lastOp.op = "handleDownload" =>
    /\ \A pair \in downloadParams : pair[1] \in DownloadKeys
    /\ TextParamIs("receive_company", selectedBillingCompany)
    /\ TextParamIs("issue_company", selectedInvoiceCompany)
    /\ TextParamIs("product_name", selectedProduct)
    /\ DateParamIs("start_date", dateRange.start)
    /\ DateParamIs("end_date", dateRange.end)

\* C25 witness: keyword and amount bounds are set, the receiving company is
\* a space, the product is "Pa" after a space and a start date is given; the
\* request carries the trimmed product and the start date only
C25_Witness ==
  /\ lastOp.op = "handleDownload"
  /\ searchKeyword = KeywordABC /\ AmountActive
  /\ selectedBillingCompany = Blank
  /\ selectedInvoiceCompany = EmptyS
  /\ selectedProduct = SpacePa
  /\ downloadParams = {<<"product_name", ProductPa>>, <<"start_date", DateOnly(2)>>}

----------------------------------------------------------------------------
(* Page number within the view *)

\* C26: after any sequence of loading, predicate changes, clearFilters and
\* page navigation, whenever the filtered view is not empty the current page
\* lies in 1..totalPages, so the slice shown is not empty while records match.
C26_PageInRangeWhenViewNonEmpty ==
  Len(filteredData) > 0 =>
    /\ 1 <= currentPage /\ currentPage <= totalPages
    /\ currentData # <<>>

\* C26 witness: on the last of three pages a request for the page after it
\* was made, and the last page is still shown
C26_Witness ==
  /\ totalPages = 3
  /\ lastOp = Op("handlePageChange", 4)
  /\ currentPage = 3
  /\ Len(currentData) = MaxRecords - 2 * pageSize

----------------------------------------------------------------------------
(* Pages as a partition of the view *)

\* the slices of pages 1..n of the view, one after the other
RECURSIVE PagesConcatenated(_, _)
PagesConcatenated(view, n) ==
  IF n = 0 THEN <<>>
  ELSE PagesConcatenated(view, n - 1) \o PageSlice(view, n)

\* C27: the slices of pages 1..totalPages partition the view: concatenated
\* in order they equal the view, every page has at most 10 records and every
\* page except the last has exactly 10.
C27_PagesPartitionView ==
  /\ PagesConcatenated(filteredData, totalPages) = filteredData
  /\ \A p \in 1..totalPages :
       /\ Len(PageSlice(filteredData, p)) <= 10
       /\ Len(PageSlice(filteredData, p)) >= 1
       /\ p < totalPages => Len(PageSlice(filteredData, p)) = 10

\* C27 witness: a filtered view of more than one page whose last page is
\* not full, the second page being shown
C27_Witness ==
  /\ Len(filteredData) < Len(invoiceData)
  /\ totalPages = 2
  /\ Len(filteredData) > pageSize /\ Len(filteredData) < 2 * pageSize
  /\ currentPage = 2
  /\ currentData = SubSeq(filteredData, pageSize + 1, Len(filteredData))

----------------------------------------------------------------------------
(* Company count and the results company list *)

\* every record of the view has an issuing company that is neither absent
\* nor empty
AllCompaniesGiven(view) ==
  \A i \in 1..Len(view) :
    view[i].invoiceCompany # Null /\ view[i].invoiceCompany # EmptyS

\* C28: whenever the filtered view holds at least one valid amount, the
\* company count of the statistics card is at least the length of the results
\* company list, and the two are equal when every record of the view has a
\* non-empty issuing company.
C28_CompanyCountCoversCompanyList ==
  ValidPositions(filteredData) # {} =>
    /\ stats.companyCount >= Len(uniqueFilteredCompanies)
    /\ AllCompaniesGiven(filteredData) =>
         stats.companyCount = Len(uniqueFilteredCompanies)

\* C28 witness: a view with valid amounts in which one record has no issuing
\* company; the card counts four companies and the list names three
C28_Witness ==
  /\ ValidPositions(filteredData) # {}
  /\ \E i \in 1..Len(filteredData) : filteredData[i].invoiceCompany = Null
  /\ stats.companyCount = 4
  /\ Len(uniqueFilteredCompanies) = 3

====
